---- MODULE Spec2Model ----
(***************************************************************************)
(* Job queue and audit-progression engine of content-quality-mvp.          *)
(*                                                                         *)
(* The store holds three tables (audits, audit_pages, job_queue).  Worker  *)
(* loops of startJobProcessor claim jobs with getNextJob, run the crawl    *)
(* or analyze handler of audit-service.ts and resolve the job with         *)
(* completeJob or failJob.  Every await of the TypeScript code that        *)
(* touches shared state is one step of the model, so that two handlers     *)
(* interleave exactly where the JavaScript event loop lets them.           *)
(***************************************************************************)
EXTENDS Integers, Sequences, FiniteSets, TLC

\* ---------------------------------------------------------------- bounds
\* worker loops started by startJobProcessor
NumWorkers == 2
\* URLs of the audit followed through the pipeline
MaxUrls == 2
\* jobs enqueued when the queue runs a free callback
MaxJobs == 2
\* lock durations the clock may advance
MaxTicks == 1
\* pages of the audit whose progress is computed
MaxTotal == 10
\* pages crawled and waiting when the analysis of an audit is followed
MaxAnalyses == 3
\* characters of a text field written to the CSV export
MaxFieldLen == 3
\* page rows in the store when an export is generated
MaxExportPages == 3
\* issues recorded for one page
MaxIssues == 1
\* URLs of the audit followed while the store comes and goes
MaxOutageUrls == 1

\* ------------------------------------------------------ program constants
\* enqueueJob: max_attempts: 3
DefaultMaxAttempts == 3
\* getNextJob: lockDuration = 5 * 60 * 1000 ms, counted here in minutes
LockDuration == 5
\* a SQL NULL in a timestamp column
NULL == -1

Workers == 1..NumWorkers

VARIABLES
    now,                  \* wall clock (minutes)
    audits,               \* app.audits, indexed by audit id
    pages,                \* app.audit_pages, indexed by page id
    jobs,                 \* app.job_queue, indexed by job id, in created_at order
    activeCrawlsByAudit,  \* startJobProcessor's Map<auditId, boolean>, as the set of keys
    worker,               \* per worker loop: position, claimed job, handler locals
    failCalls,            \* per job: number of failJob calls made for it
    succeeded,            \* per audit: analyze handlers that returned normally
    storeUp,              \* the database accepts connections
    http,                 \* the last POST /audits exchange: request and response
    progress,             \* the last getAuditProgress call: rows read and result
    csv,                  \* the last CSV row generated: field values and text
    seed                  \* the startAudit call in progress: position and locals

vars == <<now, audits, pages, jobs, activeCrawlsByAudit, worker, failCalls, succeeded,
          storeUp, http, progress, csv, seed>>

\* ------------------------------------------------------------ job queue

\* the payload startAudit gives a crawl_page job (error is the message
\* failJob stores in the payload, absent at first)
CrawlPayload(auditId, pageId, url, rateLimitMs) ==
    [audit_id |-> auditId, page_id |-> pageId, url |-> url,
     rate_limit_ms |-> rateLimitMs, error |-> FALSE]

\* the payload processCrawlPageJob gives an analyze_page job
AnalyzePayload(auditId, pageId) ==
    [audit_id |-> auditId, page_id |-> pageId, error |-> FALSE]

\* enqueueJob: the inserted row; payload_parses tells whether getNextJob can
\* turn the payload column it reads back into an object
NewJob(jobType, payload) ==
    [ job_type       |-> jobType,
      payload        |-> payload,
      payload_parses |-> TRUE,
      status         |-> "pending",
      attempts       |-> 0,
      max_attempts   |-> DefaultMaxAttempts,
      locked_until   |-> NULL,
      processed_at   |-> NULL ]

\* the WHERE clause of getNextJob's sub-select
EligibleIgnoringStatus(j) ==
    jobs[j].locked_until = NULL \/ jobs[j].locked_until <= now

Eligible(j) ==
    /\ jobs[j].status = "pending"
    /\ (jobs[j].locked_until = NULL \/ jobs[j].locked_until <= now)

EligibleJobs == { j \in 1..Len(jobs) : Eligible(j) }

\* ORDER BY created_at ASC LIMIT 1 (job ids are assigned in created_at order)
NextEligibleLatest == CHOOSE j \in EligibleJobs : \A k \in EligibleJobs : j >= k

NextEligible == CHOOSE j \in EligibleJobs : \A k \in EligibleJobs : j <= k

\* the SET clause of getNextJob's UPDATE
ClaimedUnlocked(job) ==
    [job EXCEPT !.status = "processing",
                !.attempts = job.attempts + 1]

Claimed(job) ==
    [job EXCEPT !.status = "processing",
                !.locked_until = now + LockDuration,
                !.attempts = job.attempts + 1]

\* completeJob's UPDATE
Completed(job) ==
    [job EXCEPT !.status = "completed", !.processed_at = now, !.locked_until = NULL]

\* failJob: hasReachedMaxAttempts
HasReachedMaxAttemptsOffByOne(job) == job.attempts > job.max_attempts

HasReachedMaxAttempts(job) == job.attempts >= job.max_attempts

\* failJob's payload column: the parsed payload with the error message merged in
PayloadWithError(payload) == [payload EXCEPT !.error = TRUE]

\* failJob's UPDATE (the worker always passes an error message)
FailedKeepingLock(job) ==
    [job EXCEPT !.status = IF HasReachedMaxAttempts(job) THEN "failed" ELSE "pending",
                !.processed_at = IF HasReachedMaxAttempts(job) THEN now ELSE NULL,
                !.payload = PayloadWithError(job.payload)]

Failed(job) ==
    [job EXCEPT !.status = IF HasReachedMaxAttempts(job) THEN "failed" ELSE "pending",
                !.processed_at = IF HasReachedMaxAttempts(job) THEN now ELSE NULL,
                !.locked_until = NULL,
                !.payload = PayloadWithError(job.payload)]

\* failJob(jobId, error) on the table: select the row, return if there is
\* none, otherwise update it
FailedJobsEveryRow(jobId) == [j \in 1..Len(jobs) |-> Failed(jobs[j])]

FailedJobs(jobId) ==
    IF jobId \in 1..Len(jobs)
    THEN [jobs EXCEPT ![jobId] = Failed(jobs[jobId])]
    ELSE jobs

\* --------------------------------------------------------------- workers

IdleWorker == [pc |-> "idle", job |-> 0, read |-> 0, decision |-> "none",
               consecutiveErrors |-> 0]

JobOf(w) == jobs[worker[w].job]
AuditOf(w) == JobOf(w).payload.audit_id
PageOf(w) == JobOf(w).payload.page_id

\* no request has been answered yet
NoExchange == [status |-> 0]

\* getAuditProgress has not been called yet
NoProgress == [called |-> FALSE]

\* no CSV row has been generated, and none is asked for
NoCsv == [called |-> FALSE, fields |-> << >>]

\* no startAudit call is between its statements
NoSeed == [pc |-> "none"]

Init ==
    /\ now = 0
    /\ audits = << >>
    /\ pages = << >>
    /\ jobs = << >>
    /\ activeCrawlsByAudit = {}
    /\ worker = [w \in Workers |-> IdleWorker]
    /\ failCalls = << >>
    /\ succeeded = << >>
    /\ storeUp = TRUE
    /\ http = NoExchange
    /\ progress = NoProgress
    /\ csv = NoCsv
    /\ seed = NoSeed

\* ----------------------------------------------- POST /audits, startAudit

\* api.ts: rate_limit_ms of the request, or 1000 when absent (0 stands for
\* an absent or falsy field)
DefaultRateLimitMs == 1000

RateLimitOf(req) ==
    IF req.rate_limit_ms # 0 THEN req.rate_limit_ms ELSE DefaultRateLimitMs

\* api.ts: the urlLimit argument handed to startAudit (0 stands for undefined)
UrlLimitOf(req) ==
    IF req.limit_given /\ req.url_limit # 0 THEN req.url_limit ELSE 0

\* api.ts: url_limit, when provided, must be a positive number
UrlLimitRejected(req) == req.limit_given /\ req.url_limit <= 0

\* startAudit: if (urls.length === 0) throw
NoUrlsFoundUnchecked(urls) == FALSE

NoUrlsFound(urls) == Len(urls) = 0

\* startAudit: apply the URL limit if specified
TruncatedNever(urls, urlLimit) == urls

Truncated(urls, urlLimit) ==
    IF urlLimit # 0 /\ urlLimit > 0 /\ urlLimit < Len(urls)
    THEN SubSeq(urls, 1, urlLimit)
    ELSE urls

\* startAudit: the page record of one URL
NewPage(auditId, url) ==
    [audit_id |-> auditId, url |-> url, status |-> "pending",
     has_content |-> FALSE, has_error |-> FALSE]

\* startAudit, from the audit insert on: audit row, one page row per URL,
\* status crawling, and for every URL of the list a crawl_page job for the
\* page that "WHERE audit_id = .. AND url = .. LIMIT 1" finds (any one of
\* the audit's pages with that URL)
StartAudit(sitemap, rateLimitMs, urlLimit) ==
    LET urls == Truncated(sitemap, urlLimit)
        n == Len(urls)
        a == Len(audits) + 1
        firstPage == Len(pages) + 1
        newPageIds == firstPage..(firstPage + n - 1)
        PagesWithUrl(url) == { p \in newPageIds : urls[p - firstPage + 1] = url }
    IN \E found \in [1..n -> newPageIds] :
          /\ \A i \in 1..n : found[i] \in PagesWithUrl(urls[i])
          /\ audits' = Append(audits, [status |-> "crawling", total_urls |-> n,
                                       processed_urls |-> 0])
          /\ pages' = pages \o [i \in 1..n |-> NewPage(a, urls[i])]
          /\ jobs' = jobs \o [i \in 1..n |->
                          NewJob("crawl_page", CrawlPayload(a, found[i], urls[i], rateLimitMs))]
          /\ failCalls' = failCalls \o [i \in 1..n |-> 0]
          /\ succeeded' = Append(succeeded, 0)

\* the route's answer: status code, the request, and the URL list the
\* sitemap resolver returned if it was asked
Exchange(status, req, sitemap) == [status |-> status, request |-> req, sitemap |-> sitemap]

\* POST /audits: validate the body, call startAudit, answer 201, 400 or 500
PostAudit(req, sitemap) ==
    /\ IF ~ req.url_valid \/ UrlLimitRejected(req)
       THEN /\ http' = Exchange(400, req, << >>)
            /\ UNCHANGED <<audits, pages, jobs, failCalls, succeeded>>
       ELSE IF NoUrlsFound(sitemap)
       THEN /\ http' = Exchange(500, req, sitemap)
            /\ UNCHANGED <<audits, pages, jobs, failCalls, succeeded>>
       ELSE /\ http' = Exchange(201, req, sitemap)
            /\ StartAudit(sitemap, RateLimitOf(req), UrlLimitOf(req))
    /\ UNCHANGED <<now, activeCrawlsByAudit, worker, storeUp, progress, csv, seed>>

\* ------------------------------------------------- startJobProcessor loop

\* what the worker loop does with a null from getNextJob: it resets its
\* error counter and calls getNextJob again after its 2 s timer
Polled(wk) == [wk EXCEPT !.consecutiveErrors = 0]

\* processNext: await getNextJob().  With the store reachable and a job
\* eligible the UPDATE claims it; the row is returned to the worker if its
\* payload parses, otherwise the throw is caught inside getNextJob and null
\* is returned.  With the store unreachable the connection error is caught
\* the same way, and with nothing eligible no row comes back: null again.
\* Idle worker loops with equal counters are interchangeable (same closure,
\* same local state), so the lowest-numbered one stands for whichever of
\* them polls first.
GetNextJob(w) ==
    /\ worker[w].pc = "idle"
    /\ \A v \in Workers : v < w => worker[v] # worker[w]
    /\ IF storeUp /\ EligibleJobs # {}
       THEN LET j == NextEligible
            IN /\ jobs' = [jobs EXCEPT ![j] = Claimed(jobs[j])]
               /\ worker' = [worker EXCEPT ![w] =
                                IF jobs[j].payload_parses
                                THEN [Polled(@) EXCEPT !.pc = "claimed", !.job = j]
                                ELSE Polled(@)]
       ELSE /\ worker' = [worker EXCEPT ![w] = Polled(@)]
            /\ UNCHANGED jobs
    /\ UNCHANGED <<now, audits, pages, activeCrawlsByAudit, failCalls, succeeded, storeUp, http, progress, csv, seed>>

\* while (activeCrawlsByAudit.get(auditId)) await sleep(500)
CrawlLockFreeUnchecked(a) == TRUE

CrawlLockFree(a) == a \notin activeCrawlsByAudit

\* the crawl branch up to processJob(job): wait for the audit's lock, take it
AcquireCrawlLock(w) ==
    /\ worker[w].pc = "claimed"
    /\ JobOf(w).job_type = "crawl_page"
    /\ CrawlLockFree(AuditOf(w))
    /\ activeCrawlsByAudit' = activeCrawlsByAudit \cup {AuditOf(w)}
    /\ worker' = [worker EXCEPT ![w].pc = "crawl_start"]
    /\ UNCHANGED <<now, audits, pages, jobs, failCalls, succeeded, storeUp, http, progress, csv, seed>>

\* ------------------------------------------------- processCrawlPageJob

\* status written to the page after a successful crawl
CrawledStatusLegacy == "pending"

CrawledStatus == "analyzing"

\* update page status to crawling
CrawlSetCrawling(w) ==
    /\ worker[w].pc = "crawl_start"
    /\ pages' = [pages EXCEPT ![PageOf(w)].status = "crawling"]
    /\ worker' = [worker EXCEPT ![w].pc = "crawl_run"]
    /\ UNCHANGED <<now, audits, jobs, activeCrawlsByAudit, failCalls, succeeded, storeUp, http, progress, csv, seed>>

\* crawlUrl returned: title, content and the new status are persisted
CrawlUrlReturns(w) ==
    /\ worker[w].pc = "crawl_run"
    /\ pages' = [pages EXCEPT ![PageOf(w)].status = CrawledStatus,
                              ![PageOf(w)].has_content = TRUE]
    /\ worker' = [worker EXCEPT ![w].pc = "crawl_enqueue"]
    /\ UNCHANGED <<now, audits, jobs, activeCrawlsByAudit, failCalls, succeeded, storeUp, http, progress, csv, seed>>

\* enqueueJob('analyze_page', {audit_id, page_id}); the handler returns
CrawlEnqueueAnalyze(w) ==
    /\ worker[w].pc = "crawl_enqueue"
    /\ jobs' = Append(jobs, NewJob("analyze_page", AnalyzePayload(AuditOf(w), PageOf(w))))
    /\ failCalls' = Append(failCalls, 0)
    /\ worker' = [worker EXCEPT ![w].pc = "returned"]
    /\ UNCHANGED <<now, audits, pages, activeCrawlsByAudit, succeeded, storeUp, http, progress, csv, seed>>

\* crawlUrl threw: the catch block marks the page failed and re-throws
CrawlUrlThrowsSwallowed(w) ==
    /\ worker[w].pc = "crawl_run"
    /\ pages' = [pages EXCEPT ![PageOf(w)].status = "failed",
                              ![PageOf(w)].has_error = TRUE]
    /\ worker' = [worker EXCEPT ![w].pc = "returned"]
    /\ UNCHANGED <<now, audits, jobs, activeCrawlsByAudit, failCalls, succeeded, storeUp, http, progress, csv, seed>>

CrawlUrlThrows(w) ==
    /\ worker[w].pc = "crawl_run"
    /\ pages' = [pages EXCEPT ![PageOf(w)].status = "failed",
                              ![PageOf(w)].has_error = TRUE]
    /\ worker' = [worker EXCEPT ![w].pc = "threw"]
    /\ UNCHANGED <<now, audits, jobs, activeCrawlsByAudit, failCalls, succeeded, storeUp, http, progress, csv, seed>>

\* ------------------------------------------------ processAnalyzePageJob

\* select the page; without title/content the handler throws, otherwise it
\* sets the page to analyzing
AnalyzeBegin(w) ==
    /\ worker[w].pc = "claimed"
    /\ JobOf(w).job_type = "analyze_page"
    /\ IF pages[PageOf(w)].has_content
       THEN /\ pages' = [pages EXCEPT ![PageOf(w)].status = "analyzing"]
            /\ worker' = [worker EXCEPT ![w].pc = "analyze_run"]
       ELSE /\ pages' = [pages EXCEPT ![PageOf(w)].status = "failed",
                                      ![PageOf(w)].has_error = TRUE]
            /\ worker' = [worker EXCEPT ![w].pc = "threw"]
    /\ UNCHANGED <<now, audits, jobs, activeCrawlsByAudit, failCalls, succeeded, storeUp, http, progress, csv, seed>>

\* analyzeContent returned: issues inserted, page completed with its score
AnalyzeContentReturns(w) ==
    /\ worker[w].pc = "analyze_run"
    /\ pages' = [pages EXCEPT ![PageOf(w)].status = "completed"]
    /\ worker' = [worker EXCEPT ![w].pc = "count_read"]
    /\ UNCHANGED <<now, audits, jobs, activeCrawlsByAudit, failCalls, succeeded, storeUp, http, progress, csv, seed>>

\* analyzeContent threw: the catch block marks the page failed and re-throws
AnalyzeContentThrows(w) ==
    /\ worker[w].pc = "analyze_run"
    /\ pages' = [pages EXCEPT ![PageOf(w)].status = "failed",
                              ![PageOf(w)].has_error = TRUE]
    /\ worker' = [worker EXCEPT ![w].pc = "threw"]
    /\ UNCHANGED <<now, audits, jobs, activeCrawlsByAudit, failCalls, succeeded, storeUp, http, progress, csv, seed>>

\* select the audit row (currentAudit)
AnalyzeReadAudit(w) ==
    /\ worker[w].pc = "count_read"
    /\ worker' = [worker EXCEPT ![w].pc = "count_write",
                                ![w].read = audits[AuditOf(w)].processed_urls]
    /\ UNCHANGED <<now, audits, pages, jobs, activeCrawlsByAudit, failCalls, succeeded, storeUp, http, progress, csv, seed>>

\* update processed_urls = currentAudit[0].processed_urls + 1
AnalyzeWriteProcessed(w) ==
    /\ worker[w].pc = "count_write"
    /\ audits' = [audits EXCEPT ![AuditOf(w)].processed_urls = worker[w].read + 1]
    /\ worker' = [worker EXCEPT ![w].pc = "scan", ![w].read = 0]
    /\ UNCHANGED <<now, pages, jobs, activeCrawlsByAudit, failCalls, succeeded, storeUp, http, progress, csv, seed>>

\* the pages of one audit
PagesOfAudit(a) == { p \in 1..Len(pages) : pages[p].audit_id = a }

\* the decision taken from the allPages snapshot
ScanDecisionFailing(a) ==
    IF \A p \in PagesOfAudit(a) : pages[p].status \in {"completed", "failed"}
    THEN IF \E p \in PagesOfAudit(a) : pages[p].status = "failed"
         THEN "failed" ELSE "completed"
    ELSE IF /\ \E p \in PagesOfAudit(a) : pages[p].status = "analyzing"
            /\ ~ \E p \in PagesOfAudit(a) : pages[p].status = "crawling"
         THEN "analyzing"
         ELSE "none"

ScanDecision(a) ==
    IF \A p \in PagesOfAudit(a) : pages[p].status \in {"completed", "failed"}
    THEN "completed"
    ELSE IF /\ \E p \in PagesOfAudit(a) : pages[p].status = "analyzing"
            /\ ~ \E p \in PagesOfAudit(a) : pages[p].status = "crawling"
         THEN "analyzing"
         ELSE "none"

\* select all pages of the audit and decide; with nothing to write the
\* handler returns
AnalyzeScanPages(w) ==
    /\ worker[w].pc = "scan"
    /\ LET d == ScanDecision(AuditOf(w))
       IN IF d = "none"
          THEN /\ worker' = [worker EXCEPT ![w].pc = "returned"]
               /\ succeeded' = [succeeded EXCEPT ![AuditOf(w)] = @ + 1]
          ELSE /\ worker' = [worker EXCEPT ![w].pc = "set_status", ![w].decision = d]
               /\ UNCHANGED succeeded
    /\ UNCHANGED <<now, audits, pages, jobs, activeCrawlsByAudit, failCalls, storeUp, http, progress, csv, seed>>

\* update the audit status as decided; the handler returns
AnalyzeSetAuditStatus(w) ==
    /\ worker[w].pc = "set_status"
    /\ audits' = [audits EXCEPT ![AuditOf(w)].status = worker[w].decision]
    /\ worker' = [worker EXCEPT ![w].pc = "returned", ![w].decision = "none"]
    /\ succeeded' = [succeeded EXCEPT ![AuditOf(w)] = @ + 1]
    /\ UNCHANGED <<now, pages, jobs, activeCrawlsByAudit, failCalls, storeUp, http, progress, csv, seed>>

\* ------------------------------------------------- resolving the attempt

\* finally { activeCrawlsByAudit.delete(auditId) } of the crawl branch
ReleasedNever(w) == activeCrawlsByAudit

Released(w) ==
    IF JobOf(w).job_type = "crawl_page"
    THEN activeCrawlsByAudit \ {AuditOf(w)}
    ELSE activeCrawlsByAudit

\* completeJob(job.id), the finally block, processNext()
Resolved(w) ==
    /\ jobs' = [jobs EXCEPT ![worker[w].job] = Completed(@)]
    /\ activeCrawlsByAudit' = Released(w)
    /\ worker' = [worker EXCEPT ![w] = IdleWorker]
    /\ UNCHANGED <<now, audits, pages, failCalls, succeeded, storeUp, http, progress, csv, seed>>

\* failJob(job.id, message), the finally block, processNext()
Rejected(w) ==
    /\ jobs' = FailedJobs(worker[w].job)
    /\ failCalls' = [failCalls EXCEPT ![worker[w].job] = @ + 1]
    /\ activeCrawlsByAudit' = Released(w)
    /\ worker' = [worker EXCEPT ![w] = IdleWorker]
    /\ UNCHANGED <<now, audits, pages, succeeded, storeUp, http, progress, csv, seed>>

\* the outer catch of processNext: the error is counted and processNext is
\* called again after 5 or 10 s
BackoffEscapes(wk) == [wk EXCEPT !.pc = "stopped"]

Backoff(wk) == [IdleWorker EXCEPT !.consecutiveErrors = wk.consecutiveErrors + 1]

\* the handler returned: the try block goes on to completeJob; if the store
\* is unreachable completeJob rejects and the catch block is entered
CompleteJob(w) ==
    /\ worker[w].pc = "returned"
    /\ IF storeUp
       THEN Resolved(w)
       ELSE /\ worker' = [worker EXCEPT ![w].pc = "complete_threw"]
            /\ UNCHANGED <<now, audits, pages, jobs, activeCrawlsByAudit, failCalls,
                           succeeded, storeUp, http, progress, csv, seed>>

\* the catch block (entered from the handler or from completeJob) calls
\* failJob; if the store is unreachable failJob rejects too: the finally
\* block releases the lock and the outer catch takes over
FailJob(w) ==
    /\ worker[w].pc \in {"threw", "complete_threw"}
    /\ IF storeUp
       THEN Rejected(w)
       ELSE /\ failCalls' = [failCalls EXCEPT ![worker[w].job] = @ + 1]
            /\ activeCrawlsByAudit' = Released(w)
            /\ worker' = [worker EXCEPT ![w] = Backoff(@)]
            /\ UNCHANGED <<now, audits, pages, jobs, succeeded, storeUp, http, progress, csv, seed>>

\* ------------------------------------------------------- the environment

\* positions inside processJob(job)
InHandler(w) ==
    \/ worker[w].pc \in {"crawl_start", "crawl_run", "crawl_enqueue", "analyze_run",
                         "count_read", "count_write", "scan", "set_status"}
    \/ worker[w].pc = "claimed" /\ JobOf(w).job_type = "analyze_page"

\* processJob never settles: the handler hangs (or the process dies) before
\* completeJob or failJob is called
Crash(w) ==
    /\ worker[w].job # 0
    /\ InHandler(w)
    /\ worker' = [worker EXCEPT ![w].pc = "crashed"]
    /\ UNCHANGED <<now, audits, pages, jobs, activeCrawlsByAudit, failCalls, succeeded, storeUp, http, progress, csv, seed>>

\* time passes; the clock is read only against locked_until = claim time +
\* LockDuration, so it advances one lock duration at a time
Tick ==
    /\ now < MaxTicks * LockDuration
    /\ now' = now + LockDuration
    /\ UNCHANGED <<audits, pages, jobs, activeCrawlsByAudit, worker, failCalls, succeeded, storeUp, http, progress, csv, seed>>

WorkerStep(w) ==
    \/ GetNextJob(w)
    \/ AcquireCrawlLock(w)
    \/ CrawlSetCrawling(w)
    \/ CrawlUrlReturns(w)
    \/ CrawlEnqueueAnalyze(w)
    \/ CrawlUrlThrows(w)
    \/ AnalyzeBegin(w)
    \/ AnalyzeContentReturns(w)
    \/ AnalyzeContentThrows(w)
    \/ AnalyzeReadAudit(w)
    \/ AnalyzeWriteProcessed(w)
    \/ AnalyzeScanPages(w)
    \/ AnalyzeSetAuditStatus(w)
    \/ CompleteJob(w)
    \/ FailJob(w)

\* a well-formed request without limits
PlainRequest == [url_valid |-> TRUE, limit_given |-> FALSE, url_limit |-> 0, rate_limit_ms |-> 0]

\* one audit is followed: a sitemap of n different URLs is submitted once
Next ==
    \/ \E n \in 1..MaxUrls :
          audits = << >> /\ jobs = << >> /\ PostAudit(PlainRequest, [i \in 1..n |-> i])
    \/ \E w \in Workers : WorkerStep(w)

Spec == Init /\ [][Next]_vars

\* every worker loop keeps running: its timers fire, its awaits settle and
\* the external crawl and analysis calls return or throw
SpecFair == Spec /\ \A w \in Workers : WF_vars(WorkerStep(w))

\* ------------------------------------ the queue under a free callback

\* the payload a client gives a job of either type (page and URL named
\* after the job's position)
PayloadFor(jobType, auditId) ==
    IF jobType = "crawl_page"
    THEN CrawlPayload(auditId, Len(jobs) + 1, Len(jobs) + 1, DefaultRateLimitMs)
    ELSE AnalyzePayload(auditId, Len(jobs) + 1)

\* enqueueJob called by any client of job-queue.ts
EnqueueJob(jobType, auditId) ==
    /\ Len(jobs) < MaxJobs
    /\ jobs' = Append(jobs, NewJob(jobType, PayloadFor(jobType, auditId)))
    /\ failCalls' = Append(failCalls, 0)
    /\ UNCHANGED <<now, audits, pages, activeCrawlsByAudit, worker, succeeded, storeUp, http, progress, csv, seed>>

\* await processJob(job) resolves, for any callback passed to
\* startJobProcessor, and the worker completes the job
ProcessJobReturns(w) ==
    /\ worker[w].job # 0
    /\ InHandler(w)
    /\ Resolved(w)

\* await processJob(job) rejects and the worker fails the job
ProcessJobThrows(w) ==
    /\ worker[w].job # 0
    /\ InHandler(w)
    /\ Rejected(w)

QueueWorkerStep(w) ==
    \/ GetNextJob(w)
    \/ AcquireCrawlLock(w)
    \/ ProcessJobReturns(w)
    \/ ProcessJobThrows(w)

\* audit ids are opaque uuids: a job names an audit already named in the
\* queue or the next fresh one
AuditIdsNamed == { jobs[j].payload.audit_id : j \in 1..Len(jobs) }

NextQueue ==
    \/ \E t \in {"crawl_page", "analyze_page"}, a \in 1..(Cardinality(AuditIdsNamed) + 1) :
          EnqueueJob(t, a)
    \/ \E w \in Workers : QueueWorkerStep(w)
    \/ \E w \in Workers : Crash(w)
    \/ Tick

SpecQueue == Init /\ [][NextQueue]_vars

\* ------------------------------ the queue with an unreliable environment

\* a row whose payload column holds text that is no JSON document (the
\* payload parameter of enqueueJob is cast to any)
EnqueueMalformedJob(jobType, auditId) ==
    /\ Len(jobs) < MaxJobs
    /\ jobs' = Append(jobs, [NewJob(jobType, PayloadFor(jobType, auditId))
                                EXCEPT !.payload_parses = FALSE])
    /\ failCalls' = Append(failCalls, 0)
    /\ UNCHANGED <<now, audits, pages, activeCrawlsByAudit, worker, succeeded,
                   storeUp, http, progress, csv, seed>>

\* await processJob(job) resolves, for any callback
HandlerReturns(w) ==
    /\ worker[w].job # 0
    /\ InHandler(w)
    /\ worker' = [worker EXCEPT ![w].pc = "returned"]
    /\ UNCHANGED <<now, audits, pages, jobs, activeCrawlsByAudit, failCalls, succeeded,
                   storeUp, http, progress, csv, seed>>

\* await processJob(job) rejects, for any callback
HandlerThrows(w) ==
    /\ worker[w].job # 0
    /\ InHandler(w)
    /\ worker' = [worker EXCEPT ![w].pc = "threw"]
    /\ UNCHANGED <<now, audits, pages, jobs, activeCrawlsByAudit, failCalls, succeeded,
                   storeUp, http, progress, csv, seed>>

\* the database stops accepting connections (ECONNREFUSED, 57P03)
StoreGoesDown ==
    /\ storeUp
    /\ storeUp' = FALSE
    /\ UNCHANGED <<now, audits, pages, jobs, activeCrawlsByAudit, worker, failCalls,
                   succeeded, http, progress, csv, seed>>

\* the database is back
StoreComesBack ==
    /\ ~ storeUp
    /\ storeUp' = TRUE
    /\ UNCHANGED <<now, audits, pages, jobs, activeCrawlsByAudit, worker, failCalls,
                   succeeded, http, progress, csv, seed>>

FaultsWorkerStep(w) ==
    \/ GetNextJob(w)
    \/ AcquireCrawlLock(w)
    \/ HandlerReturns(w)
    \/ HandlerThrows(w)
    \/ CompleteJob(w)
    \/ FailJob(w)

NextFaults ==
    \/ \E t \in {"crawl_page", "analyze_page"}, a \in 1..(Cardinality(AuditIdsNamed) + 1) :
          EnqueueJob(t, a) \/ EnqueueMalformedJob(t, a)
    \/ \E w \in Workers : FaultsWorkerStep(w)
    \/ StoreGoesDown
    \/ StoreComesBack

SpecFaults == Init /\ [][NextFaults]_vars

\* every worker loop keeps running: its timers fire and its awaits settle
SpecFaultsFair == SpecFaults /\ \A w \in Workers : WF_vars(FaultsWorkerStep(w))

\* ------------------------------- the pipeline with a store that goes away

\* a worker loop while the store comes and goes: with the store reachable
\* it takes any of its steps; with the store unreachable getNextJob,
\* completeJob and failJob are rejected (the handlers' own statements are
\* followed only while the store answers them)
OutageWorkerStep(w) ==
    \/ storeUp /\ WorkerStep(w)
    \/ ~ storeUp /\ (GetNextJob(w) \/ CompleteJob(w) \/ FailJob(w))

NextOutage ==
    \/ \E n \in 1..MaxOutageUrls :
          audits = << >> /\ jobs = << >> /\ storeUp /\ PostAudit(PlainRequest, [i \in 1..n |-> i])
    \/ \E w \in Workers : OutageWorkerStep(w)
    \/ StoreGoesDown
    \/ StoreComesBack

SpecOutage == Init /\ [][NextOutage]_vars

\* ------------------------------------------- POST /audits with any body

\* the bodies a client may send: url_limit absent or a number around the
\* sitemap's size, rate_limit_ms absent or given
Requests ==
    { [url_valid |-> v, limit_given |-> g, url_limit |-> l, rate_limit_ms |-> r] :
        v \in BOOLEAN, g \in BOOLEAN, l \in (-1)..(MaxUrls + 1), r \in {0, 500} }

\* what parseSitemap may return: any list of up to MaxUrls URLs, repeats
\* included (the <loc> entries are mapped and filtered, nothing more)
Sitemaps == UNION { [1..n -> 1..MaxUrls] : n \in 0..MaxUrls }

\* requests arrive until one is accepted
NextStart ==
    \E req \in Requests, sitemap \in Sitemaps :
        /\ audits = << >>
        /\ req.limit_given \/ req.url_limit = 0
        /\ PostAudit(req, sitemap)

SpecStart == Init /\ [][NextStart]_vars

\* ------------------------------------------------------ getAuditProgress

PageStatuses == {"pending", "crawling", "analyzing", "completed", "failed"}

\* the count(*) of one status group of the audit's pages (0 if no group)
CountOf(a, st) == Cardinality({ p \in PagesOfAudit(a) : pages[p].status = st })

\* Math.round(num / den): the nearest integer, halves upwards
Round(num, den) == (2 * num + den) \div (2 * den)

\* overallPercentage: crawl and analysis progress weighted 0.5 each, times 100
OverallPercentageAnalysisOnly(total, crawled, completed) ==
    IF total > 0 THEN Round(completed * 100, total) ELSE 0

OverallPercentage(total, crawled, completed) ==
    IF total > 0 THEN Round(crawled * 50 + completed * 50, total) ELSE 0

\* getAuditProgress(auditId): read the audit row and the grouped counts,
\* return the progress object
GetAuditProgress(a) ==
    /\ a \in 1..Len(audits)
    /\ LET totalPages == audits[a].total_urls
           completedPages == CountOf(a, "completed")
           pendingPages == CountOf(a, "pending")
           crawledPages == totalPages - pendingPages
       IN progress' = [ called     |-> TRUE,
                        total      |-> totalPages,
                        completed  |-> completedPages,
                        failed     |-> CountOf(a, "failed"),
                        crawling   |-> CountOf(a, "crawling"),
                        analyzing  |-> CountOf(a, "analyzing"),
                        pending    |-> pendingPages,
                        crawled    |-> crawledPages,
                        percentage |-> OverallPercentage(totalPages, crawledPages,
                                                         completedPages) ]
    /\ UNCHANGED <<now, audits, pages, jobs, activeCrawlsByAudit, worker, failCalls,
                   succeeded, storeUp, http, csv, seed>>

\* the status of the k-th page of an audit that has c[st] pages per status
StatusAt(c, k) ==
    IF k <= c["pending"] THEN "pending"
    ELSE IF k <= c["pending"] + c["crawling"] THEN "crawling"
    ELSE IF k <= c["pending"] + c["crawling"] + c["analyzing"] THEN "analyzing"
    ELSE IF k <= c["pending"] + c["crawling"] + c["analyzing"] + c["completed"] THEN "completed"
    ELSE "failed"

TotalOf(c) ==
    c["pending"] + c["crawling"] + c["analyzing"] + c["completed"] + c["failed"]

\* a store holding one audit of up to MaxTotal pages in any mix of statuses
\* (total_urls is the number of page rows; 0 is the column default)
InitProgress ==
    /\ now = 0
    /\ \E c \in [PageStatuses -> 0..MaxTotal] :
          /\ TotalOf(c) <= MaxTotal
          /\ audits = << [status |-> "crawling", total_urls |-> TotalOf(c),
                          processed_urls |-> c["completed"]] >>
          /\ pages = [k \in 1..TotalOf(c) |->
                        [NewPage(1, k) EXCEPT
                            !.status = StatusAt(c, k),
                            !.has_content = StatusAt(c, k) \in {"analyzing", "completed"},
                            !.has_error = StatusAt(c, k) = "failed"]]
    /\ jobs = << >>
    /\ activeCrawlsByAudit = {}
    /\ worker = [w \in Workers |-> IdleWorker]
    /\ failCalls = << >>
    /\ succeeded = << 0 >>
    /\ storeUp = TRUE
    /\ http = NoExchange
    /\ progress = NoProgress
    /\ csv = NoCsv
    /\ seed = NoSeed

NextProgress == \E a \in 1..Len(audits) : GetAuditProgress(a)

SpecProgress == InitProgress /\ [][NextProgress]_vars

\* ------------------------------------- the analysis phase of one audit

\* a crawl_page job that ran once and was completed
CompletedCrawlJob(auditId, pageId) ==
    [NewJob("crawl_page", CrawlPayload(auditId, pageId, pageId, DefaultRateLimitMs))
        EXCEPT !.status = "completed", !.attempts = 1, !.processed_at = 0]

\* the store after every page of an audit of n URLs was crawled at the
\* first attempt and before any analyze_page job was claimed: the pages are
\* analyzing with their content, the crawl jobs are completed, one
\* analyze_page job per page is pending
InitAnalyze ==
    /\ now = 0
    /\ \E n \in 1..MaxAnalyses :
          /\ audits = << [status |-> "crawling", total_urls |-> n, processed_urls |-> 0] >>
          /\ pages = [p \in 1..n |->
                        [NewPage(1, p) EXCEPT !.status = CrawledStatus, !.has_content = TRUE]]
          /\ jobs = [p \in 1..n |-> CompletedCrawlJob(1, p)]
                       \o [p \in 1..n |-> NewJob("analyze_page", AnalyzePayload(1, p))]
          /\ failCalls = [j \in 1..(2 * n) |-> 0]
    /\ activeCrawlsByAudit = {}
    /\ worker = [w \in Workers |-> IdleWorker]
    /\ succeeded = << 0 >>
    /\ storeUp = TRUE
    /\ http = NoExchange
    /\ progress = NoProgress
    /\ csv = NoCsv
    /\ seed = NoSeed

\* the steps of a worker loop that finds analyze_page jobs only
AnalyzeWorkerStep(w) ==
    \/ GetNextJob(w)
    \/ AnalyzeBegin(w)
    \/ AnalyzeContentReturns(w)
    \/ AnalyzeContentThrows(w)
    \/ AnalyzeReadAudit(w)
    \/ AnalyzeWriteProcessed(w)
    \/ AnalyzeScanPages(w)
    \/ AnalyzeSetAuditStatus(w)
    \/ CompleteJob(w)
    \/ FailJob(w)

NextAnalyze == \E w \in Workers : AnalyzeWorkerStep(w)

SpecAnalyze == InitAnalyze /\ [][NextAnalyze]_vars

\* ---------------------------------------------------- generateCsvExport

\* the characters a field is made of: a letter, the separator, the quote
\* and the line feed
CsvChars == {"a", ",", "\"", "\n"}

\* the text values a page can carry into the export (url, issues summary,
\* snippets, suggestions)
FieldValues == UNION { [1..n -> CsvChars] : n \in 0..MaxFieldLen }

\* value.includes(c)
Includes(value, c) == \E i \in 1..Len(value) : value[i] = c

\* value.replace(/"/g, '""')
RECURSIVE DoubleQuotes(_)
DoubleQuotes(value) ==
    IF value = << >> THEN << >>
    ELSE (IF Head(value) = "\"" THEN <<"\"", "\"">> ELSE <<Head(value)>>)
            \o DoubleQuotes(Tail(value))

\* escapeCSV: a value with a comma, a quote or a line feed is wrapped in
\* quotes with its quotes doubled, any other value is written as it is
EscapeCSVWithoutDoubling(value) ==
    IF Includes(value, ",") \/ Includes(value, "\"") \/ Includes(value, "\n")
    THEN <<"\"">> \o value \o <<"\"">>
    ELSE value

EscapeCSV(value) ==
    IF Includes(value, ",") \/ Includes(value, "\"") \/ Includes(value, "\n")
    THEN <<"\"">> \o DoubleQuotes(value) \o <<"\"">>
    ELSE value

\* row.join(',')
RECURSIVE Join(_)
Join(row) ==
    IF Len(row) = 0 THEN << >>
    ELSE IF Len(row) = 1 THEN row[1]
    ELSE row[1] \o <<",">> \o Join(Tail(row))

\* the row of one page: its text fields escaped and joined
CsvRow(fields) == Join([i \in 1..Len(fields) |-> EscapeCSV(fields[i])])

\* generateCsvExport for a page with the given text fields
GenerateCsvExport ==
    /\ ~ csv.called
    /\ csv.fields # << >>
    /\ csv' = [called |-> TRUE, fields |-> csv.fields, text |-> CsvRow(csv.fields)]
    /\ UNCHANGED <<now, audits, pages, jobs, activeCrawlsByAudit, worker, failCalls,
                   succeeded, storeUp, http, progress, seed>>

\* a store with one page whose url and snippets are any two field values
InitCsv ==
    /\ now = 0
    /\ audits = << >>
    /\ pages = << >>
    /\ jobs = << >>
    /\ activeCrawlsByAudit = {}
    /\ worker = [w \in Workers |-> IdleWorker]
    /\ failCalls = << >>
    /\ succeeded = << >>
    /\ storeUp = TRUE
    /\ http = NoExchange
    /\ progress = NoProgress
    /\ \E f \in FieldValues, g \in FieldValues : csv = [called |-> FALSE, fields |-> <<f, g>>]
    /\ seed = NoSeed

NextCsv == GenerateCsvExport

SpecCsv == InitCsv /\ [][NextCsv]_vars

\* -------------------------------- generateCsvExport: the rows it collects

\* an analyzed page with n rows in audit_issues
AnalyzedPage(auditId, url, n) ==
    [audit_id |-> auditId, url |-> url, status |-> "completed",
     has_content |-> TRUE, has_error |-> FALSE, issues |-> n]

\* the page "select from auditPages where url = page.url limit 1" may
\* return for page p: any page row with p's URL
PagesFoundByUrl(p) == { q \in 1..Len(pages) : pages[q].url = pages[p].url }

\* generateCsvExport(a) up to pagesWithIssues: one row per page of the
\* audit, with the issue count of the joined query and the summary,
\* snippets and suggestions built from the issues of the page looked up
CollectExportRows(a) ==
    /\ ~ csv.called
    /\ a \in 1..Len(audits)
    /\ \E pageRecord \in [PagesOfAudit(a) -> 1..Len(pages)] :
          /\ \A p \in PagesOfAudit(a) : pageRecord[p] \in PagesFoundByUrl(p)
          /\ csv' = [called |-> TRUE, fields |-> << >>, audit |-> a,
                     rows |-> [p \in PagesOfAudit(a) |->
                                 [url |-> pages[p].url,
                                  issue_count |-> pages[p].issues,
                                  issues_summary |-> pages[pageRecord[p]].issues]]]
    /\ UNCHANGED <<now, audits, pages, jobs, activeCrawlsByAudit, worker, failCalls,
                   succeeded, storeUp, http, progress, seed>>

\* a store with one or two finished audits and up to MaxExportPages
\* analyzed pages, each of either audit, with either of two URLs and any
\* number of issues; every audit has a page
InitExport ==
    /\ now = 0
    /\ \E n \in 1..MaxExportPages :
          \E au \in [1..n -> 1..2], url \in [1..n -> 1..2], iss \in [1..n -> 0..MaxIssues] :
             /\ \E p \in 1..n : au[p] = 1
             /\ pages = [p \in 1..n |-> AnalyzedPage(au[p], url[p], iss[p])]
             /\ audits = [a \in { au[p] : p \in 1..n } |->
                            [status |-> "completed",
                             total_urls |-> Cardinality({ p \in 1..n : au[p] = a }),
                             processed_urls |-> Cardinality({ p \in 1..n : au[p] = a })]]
             /\ succeeded = [a \in { au[p] : p \in 1..n } |-> 0]
    /\ jobs = << >>
    /\ activeCrawlsByAudit = {}
    /\ worker = [w \in Workers |-> IdleWorker]
    /\ failCalls = << >>
    /\ storeUp = TRUE
    /\ http = NoExchange
    /\ progress = NoProgress
    /\ csv = NoCsv
    /\ seed = NoSeed

NextExport == \E a \in 1..Len(audits) : CollectExportRows(a)

SpecExport == InitExport /\ [][NextExport]_vars

\* -------------------------------------- startAudit, statement by statement

\* insert the audit row: status pending, total_urls = urls.length
SeedInsertAudit(sitemap, rateLimitMs, urlLimit) ==
    /\ seed.pc = "none"
    /\ ~ NoUrlsFound(sitemap)
    /\ LET urls == Truncated(sitemap, urlLimit)
       IN /\ audits' = Append(audits, [status |-> "pending", total_urls |-> Len(urls),
                                       processed_urls |-> 0])
          /\ seed' = [pc |-> "insert_pages", audit |-> Len(audits) + 1, urls |-> urls,
                      rate_limit_ms |-> rateLimitMs, next |-> 1]
    /\ succeeded' = Append(succeeded, 0)
    /\ UNCHANGED <<now, pages, jobs, activeCrawlsByAudit, worker, failCalls, storeUp, http,
                   progress, csv>>

\* insert the page records of all URLs in one statement
SeedInsertPages ==
    /\ seed.pc = "insert_pages"
    /\ pages' = pages \o [i \in 1..Len(seed.urls) |-> NewPage(seed.audit, seed.urls[i])]
    /\ seed' = [seed EXCEPT !.pc = "set_crawling"]
    /\ UNCHANGED <<now, audits, jobs, activeCrawlsByAudit, worker, failCalls, succeeded,
                   storeUp, http, progress, csv>>

\* the status written by "update audit status to crawling"
SeededStatusKept == "pending"

SeededStatus == "crawling"

SeedSetCrawling ==
    /\ seed.pc = "set_crawling"
    /\ audits' = [audits EXCEPT ![seed.audit].status = SeededStatus]
    /\ seed' = [seed EXCEPT !.pc = "enqueue"]
    /\ UNCHANGED <<now, pages, jobs, activeCrawlsByAudit, worker, failCalls, succeeded,
                   storeUp, http, progress, csv>>

\* one turn of the enqueue loop: look the page of the URL up (LIMIT 1) and
\* enqueue its crawl_page job; after the last URL startAudit returns
SeedEnqueueCrawl ==
    /\ seed.pc = "enqueue"
    /\ LET url == seed.urls[seed.next]
       IN \E p \in { q \in PagesOfAudit(seed.audit) : pages[q].url = url } :
             jobs' = Append(jobs, NewJob("crawl_page",
                                         CrawlPayload(seed.audit, p, url, seed.rate_limit_ms)))
    /\ failCalls' = Append(failCalls, 0)
    /\ seed' = IF seed.next = Len(seed.urls)
               THEN [seed EXCEPT !.pc = "done"]
               ELSE [seed EXCEPT !.next = @ + 1]
    /\ UNCHANGED <<now, audits, pages, activeCrawlsByAudit, worker, succeeded,
                   storeUp, http, progress, csv>>

\* one audit of n different URLs is started while the worker loops run
NextSeed ==
    \/ \E n \in 1..MaxUrls :
          audits = << >> /\ SeedInsertAudit([i \in 1..n |-> i], DefaultRateLimitMs, 0)
    \/ SeedInsertPages
    \/ SeedSetCrawling
    \/ SeedEnqueueCrawl
    \/ \E w \in Workers : WorkerStep(w)

SpecSeed == Init /\ [][NextSeed]_vars

\* the same with a client polling GET /audits/:id/progress
NextSeedProgress ==
    \/ NextSeed
    \/ \E a \in 1..Len(audits) : GetAuditProgress(a)

SpecSeedProgress == Init /\ [][NextSeedProgress]_vars

\* ================================================================ claims

JobIds == 1..Len(jobs)

\* C1: getNextJob hands a job to at most one caller per claim: the job a
\* caller receives was eligible, stops being eligible with the claim (so the
\* other callers racing for it receive null), and is held by no other worker;
\* no job is held by two workers at once.
C1_ExclusiveClaim ==
    [][ \A w \in Workers, j \in JobIds :
          (worker[w].job = 0 /\ worker'[w].job = j) =>
             /\ Eligible(j)
             /\ ~ Eligible(j)'
             /\ jobs'[j].status = "processing"
             /\ \A v \in Workers \ {w} : worker'[v].job # j /\ worker'[v] = worker[v]
      ]_vars

\* C1 witness: the store held exactly one eligible job; one worker received it
\* and every other worker is left without a job and with nothing eligible
C1_Witness ==
    /\ Len(jobs) = 1
    /\ EligibleJobs = {}
    /\ \E w \in Workers :
          /\ worker[w].job = 1
          /\ jobs[1].status = "processing"
          /\ \A v \in Workers \ {w} : worker[v].job = 0 /\ worker[v].pc = "idle"

\* C2: a claimed job that is never completed nor failed (its worker hung) is
\* eligible for getNextJob exactly from the instant locked_until has elapsed.
C2_ReclaimOnTimeout ==
    \A w \in Workers :
        worker[w].pc = "crashed" =>
            (Eligible(worker[w].job) <=> JobOf(w).locked_until <= now)

\* C3: a job whose worker hung does not stay in Processing: once its lock has
\* expired and every live worker has run out of work, no job is left
\* Processing (it was reclaimed, each reclaim being an attempt, until Failed).
C3_NoJobStuckProcessing ==
    ( /\ \A w \in Workers : worker[w].pc \in {"idle", "crashed"}
      /\ EligibleJobs = {}
      /\ \E w \in Workers : worker[w].pc = "idle"
      /\ \A j \in JobIds : jobs[j].status = "processing" => jobs[j].locked_until <= now )
    => \A j \in JobIds : jobs[j].status # "processing"

\* C4: the k-th failJob of a job (k-th failed attempt) leaves it Pending and
\* claimable when k < max_attempts, and Failed with processed_at set when
\* k = max_attempts.
C4_RetryExhaustion ==
    [][ \A j \in JobIds :
          failCalls'[j] = failCalls[j] + 1 =>
             IF failCalls'[j] < jobs[j].max_attempts
             THEN jobs'[j].status = "pending" /\ Eligible(j)'
             ELSE /\ failCalls'[j] = jobs[j].max_attempts
                  /\ jobs'[j].status = "failed"
                  /\ jobs'[j].processed_at # NULL
      ]_vars

\* C4 witness: one job failed max_attempts times and is Failed, another failed
\* fewer times and is Pending again
C4_Witness ==
    /\ \E j \in JobIds : failCalls[j] = DefaultMaxAttempts /\ jobs[j].status = "failed"
    /\ \E j \in JobIds : failCalls[j] \in 1..(DefaultMaxAttempts - 1) /\ jobs[j].status = "pending"

PageIds == 1..Len(pages)

\* C5: a page that has left Pending is never set back to Pending, and a
\* successful crawl leaves the page in Analyzing.
C5_NoReturnToPending ==
    [][ /\ \A p \in PageIds : pages[p].status # "pending" => pages'[p].status # "pending"
        /\ \A w \in Workers :
             (worker[w].pc = "crawl_run" /\ worker'[w].pc = "crawl_enqueue") =>
                pages'[PageOf(w)].status = "analyzing"
      ]_vars

\* C5 witness: a page crawled successfully on the retry of a failed crawl
C5_Witness ==
    \E p \in PageIds :
        /\ pages[p].status = "analyzing"
        /\ pages[p].has_error
        /\ \E w \in Workers : worker[w].pc = "crawl_enqueue" /\ PageOf(w) = p

\* C6: Failed is a terminal page status: no step changes the status of a
\* Failed page.
C6_FailedPageTerminal ==
    [][ \A p \in PageIds : pages[p].status = "failed" => pages'[p].status = "failed" ]_vars

\* a crawl_page handler is executing (a hung handler never stops executing)
CrawlHandlerExecuting(w) ==
    /\ worker[w].job # 0
    /\ JobOf(w).job_type = "crawl_page"
    /\ worker[w].pc \in {"crawl_start", "crawl_run", "crawl_enqueue", "crashed"}

\* C7: at every instant at most one crawl_page handler is executing per
\* audit id.
C7_OneCrawlPerAudit ==
    \A w, v \in Workers :
        (w # v /\ CrawlHandlerExecuting(w) /\ CrawlHandlerExecuting(v))
            => AuditOf(w) # AuditOf(v)

\* C7 witness: a worker has claimed a crawl job of an audit whose crawl
\* handler is executing on another worker
C7_Witness ==
    \E w, v \in Workers :
        /\ CrawlHandlerExecuting(w)
        /\ worker[v].pc = "claimed"
        /\ JobOf(v).job_type = "crawl_page"
        /\ AuditOf(v) = AuditOf(w)

\* nothing is left to run: every worker is idle and no job is eligible
Quiescent ==
    /\ \A w \in Workers : worker[w].pc = "idle"
    /\ EligibleJobs = {}

\* C8: once all work has run to its end, an audit whose pages are all
\* Completed or Failed has status Completed.
C8_AuditReachesCompleted ==
    \A a \in 1..Len(audits) :
        ( /\ Quiescent
          /\ \A p \in PagesOfAudit(a) : pages[p].status \in {"completed", "failed"} )
        => audits[a].status = "completed"

\* C9: once an audit's status is Completed no step changes the audit row.
C9_CompletedAuditFrozen ==
    [][ \A a \in 1..Len(audits) :
          audits[a].status = "completed" => audits'[a] = audits[a] ]_vars

\* an analyze handler is between persisting its page and returning
AnalyzeCounting(w) ==
    worker[w].pc \in {"count_read", "count_write", "scan", "set_status"}

\* C10: whenever no analyze handler is in the middle of its bookkeeping,
\* processed_urls equals the number of analyze handlers that succeeded.
C10_ProcessedCountsSuccesses ==
    \A a \in 1..Len(audits) :
        (\A w \in Workers : ~ AnalyzeCounting(w))
            => audits[a].processed_urls = succeeded[a]

\* the crawl_page jobs whose payload is the one startAudit owes page p
CrawlJobsOfPage(p) ==
    { j \in JobIds :
        /\ jobs[j].job_type = "crawl_page"
        /\ jobs[j].payload = CrawlPayload(pages[p].audit_id, p, pages[p].url,
                                          RateLimitOf(http.request)) }

\* C11: when startAudit has returned without error (the route answered
\* 201), every page row of the new audit has exactly one crawl_page job
\* carrying that page's page_id, the audit_id, the page's url and the
\* rate_limit_ms, whatever list the sitemap resolver returned.
C11_OneCrawlJobPerPage ==
    http.status = 201 =>
        \A p \in PageIds : Cardinality(CrawlJobsOfPage(p)) = 1

\* the URLs of the page rows, in insertion order
PageUrls == [p \in PageIds |-> pages[p].url]

\* C12: with n URLs in the sitemap and a url_limit L, 0 < L < n, the audit
\* has total_urls = L and its pages are the first L URLs in sitemap order;
\* without url_limit or with L >= n, total_urls = n and all URLs are pages.
C12_UrlLimitTruncates ==
    http.status = 201 =>
        LET n == Len(http.sitemap)
            L == http.request.url_limit
        IN IF http.request.limit_given /\ 0 < L /\ L < n
           THEN audits[1].total_urls = L /\ PageUrls = SubSeq(http.sitemap, 1, L)
           ELSE audits[1].total_urls = n /\ PageUrls = http.sitemap

\* C12 witness: an audit started with a url_limit below the sitemap's size
C12_Witness ==
    /\ http.status = 201
    /\ http.request.limit_given
    /\ 0 < http.request.url_limit
    /\ http.request.url_limit < Len(http.sitemap)
    /\ Len(pages) = http.request.url_limit

\* C13: a request with an invalid sitemap URL, a non-positive url_limit or
\* a sitemap resolving to zero URLs is answered with an error and creates
\* no audit row, page row or job.
C13_RejectedLeavesStore ==
    [][ http' # http =>
          LET req == http'.request
          IN ( \/ ~ req.url_valid
               \/ (req.limit_given /\ req.url_limit <= 0)
               \/ http'.sitemap = << >> )
             => /\ http'.status \in {400, 500}
                /\ UNCHANGED <<audits, pages, jobs>>
      ]_vars

\* C13 witness: a valid request whose sitemap resolved to zero URLs was
\* answered with an error and the store is empty
C13_Witness ==
    /\ http.status = 500
    /\ http.request.url_valid
    /\ http.sitemap = << >>
    /\ audits = << >> /\ pages = << >> /\ jobs = << >>

\* C14: an exception of the job handler is caught by the worker and turned
\* into a failJob call for that job, and no handler outcome stops the
\* worker: after a return or a throw, of a crawl or an analyze job, also
\* when completeJob or failJob reject, the worker's next step takes it back
\* to getNextJob (or into the catch block, and from there to getNextJob).
C14_HandlerErrorsCaught ==
    [][ \A w \in Workers :
          /\ (worker[w].pc = "threw" /\ worker'[w] # worker[w]) =>
                 /\ failCalls'[worker[w].job] = failCalls[worker[w].job] + 1
                 /\ worker'[w].pc = "idle"
          /\ (worker[w].pc = "returned" /\ worker'[w] # worker[w]) =>
                 worker'[w].pc \in {"idle", "complete_threw"}
          /\ (worker[w].pc = "complete_threw" /\ worker'[w] # worker[w]) =>
                 worker'[w].pc = "idle"
      ]_vars

\* C14 witness: a handler threw while the store was unreachable, failJob
\* was called and rejected, and every worker is polling again
C14_Witness ==
    /\ \E j \in JobIds : failCalls[j] = 1 /\ jobs[j].status = "processing"
    /\ \A w \in Workers : worker[w].pc = "idle"
    /\ \E w \in Workers : worker[w].consecutiveErrors = 1

\* a worker waits in the while loop for the crawl lock of its job's audit
CrawlWaiting(w) ==
    worker[w].pc = "claimed" /\ JobOf(w).job_type = "crawl_page"

\* a worker is between activeCrawlsByAudit.set and the finally block
HoldsCrawlLock(w) ==
    /\ worker[w].job # 0
    /\ JobOf(w).job_type = "crawl_page"
    /\ worker[w].pc \in {"crawl_start", "returned", "threw", "complete_threw"}

\* C15: the crawl lock of an audit is held only while a worker handles a
\* crawl_page job of that audit (it is released after every such job,
\* whether the handler returned or threw), and a worker waiting for the
\* lock eventually acquires it.
C15_CrawlLockReleased ==
    /\ [](\A a \in activeCrawlsByAudit :
            \E w \in Workers : HoldsCrawlLock(w) /\ AuditOf(w) = a)
    /\ \A w \in Workers : CrawlWaiting(w) ~> worker[w].pc = "crawl_start"

\* C15 witness: a worker holds the crawl lock of an audit after another
\* crawl job of that audit was failed, and no one else holds or awaits it
C15_Witness ==
    \E w \in Workers, j \in JobIds :
        /\ worker[w].pc = "crawl_start"
        /\ j # worker[w].job
        /\ jobs[j].job_type = "crawl_page"
        /\ jobs[j].payload.audit_id = AuditOf(w)
        /\ failCalls[j] >= 1
        /\ jobs[j].attempts = 1

\* C16: with the store unreachable getNextJob reports the error to the
\* worker loop, which can then tell the outage from an empty queue: a call
\* made during an outage is handled as an error (the loop's consecutive
\* error counter grows) and never as a null result (the counter is reset).
C16_StoreErrorReported ==
    [][ ~ storeUp =>
          \A w \in Workers :
              worker'[w].consecutiveErrors >= worker[w].consecutiveErrors ]_vars

\* C17: a claimed job whose payload cannot be deserialized is not silently
\* dropped: it is never Processing with no worker handling it.
C17_MalformedPayloadSurfaces ==
    \A j \in JobIds :
        (~ jobs[j].payload_parses /\ jobs[j].status = "processing")
            => \E w \in Workers : worker[w].job = j

\* C18: every attempt is resolved exactly once: failJob is called for a job
\* only when its handler threw, and then once; when the handler returned
\* normally completeJob is called and failJob is not; the worker takes no
\* other job before the resolution call.
C18_ResolvedExactlyOnce ==
    [][ \A w \in Workers :
          LET j == worker[w].job
          IN j # 0 =>
               /\ failCalls'[j] # failCalls[j] =>
                      failCalls'[j] = failCalls[j] + 1 /\ worker[w].pc = "threw"
               /\ (worker[w].pc = "returned" /\ worker'[w] # worker[w]) =>
                      worker'[w].pc \in {"idle", "complete_threw"}
               /\ worker'[w].job # j =>
                      /\ worker'[w].job = 0
                      /\ failCalls'[j] = failCalls[j] + 1 \/ jobs'[j].status = "completed"
      ]_vars

\* C19: getAuditProgress returns crawled = total - pending and percentage =
\* the nearest integer to (crawled/total * 0.5 + completed/total * 0.5) * 100,
\* 0 when total = 0; total 10, pending 3, completed 4 give crawled 7 and
\* percentage 55; the percentage lies in 0..100.
C19_ProgressPercentage ==
    progress.called =>
        LET t == progress.total
            pct == progress.percentage
            weighted == (progress.crawled + progress.completed) * 100
        IN /\ progress.crawled = t - progress.pending
           /\ t = 0 => pct = 0
           /\ t > 0 => (2 * t * pct - t <= weighted /\ weighted < 2 * t * pct + t)
           /\ (t = 10 /\ progress.pending = 3 /\ progress.completed = 4)
                 => (progress.crawled = 7 /\ pct = 55)
           /\ pct \in 0..100

\* C19 witness: the progress of an audit with 10 pages, 3 of them pending
\* and 4 completed, has been computed
C19_Witness ==
    /\ progress.called
    /\ progress.total = 10 /\ progress.pending = 3 /\ progress.completed = 4
    /\ progress.crawled = 7 /\ progress.percentage = 55

\* C20: no audit ever has status Failed; the audit status is Pending,
\* Crawling, Analyzing or Completed, whatever happens to its pages.
C20_AuditNeverFailed ==
    \A a \in 1..Len(audits) :
        audits[a].status \in {"pending", "crawling", "analyzing", "completed"}

\* C20 witness: all work has run to its end, a page of the audit is Failed
\* and a handler has written the audit status from its scan
C20_Witness ==
    \E a \in 1..Len(audits) :
        /\ Quiescent
        /\ \E p \in PagesOfAudit(a) : pages[p].status = "failed"
        /\ \A p \in PagesOfAudit(a) : pages[p].status \in {"completed", "failed"}
        /\ audits[a].status = "completed"

\* a call of getNextJob that hands a job to its caller
GetNextJobReturnsJob == \E w \in Workers : GetNextJob(w) /\ worker'[w].job # 0

\* C21: getNextJob returns a job if and only if some job is eligible
\* (Pending, locked_until null or not after now), the job returned is the
\* eligible job with the earliest created_at and the only row changed; with
\* nothing eligible the caller gets null and no job changes.
C21_EarliestEligibleReturned ==
    /\ []( (\E w \in Workers : worker[w].pc = "idle") =>
              (EligibleJobs # {} <=> ENABLED GetNextJobReturnsJob) )
    /\ [][ /\ \A w \in Workers, j \in JobIds :
                (worker[w].job = 0 /\ worker'[w].job = j) =>
                   /\ j \in EligibleJobs
                   /\ \A k \in EligibleJobs : j <= k
                   /\ \A k \in JobIds \ {j} : jobs'[k] = jobs[k]
           /\ EligibleJobs = {} =>
                (\A j \in JobIds : jobs'[j].status = "processing" => jobs'[j] = jobs[j])
       ]_vars

\* C21 witness: two jobs were eligible, the caller received the older one
\* and the younger one is untouched
C21_Witness ==
    /\ Len(jobs) = 2
    /\ jobs[1].status = "processing" /\ jobs[1].attempts = 1
    /\ jobs[2].status = "pending" /\ jobs[2].attempts = 0
    /\ \E w \in Workers : worker[w].job = 1
    /\ \A w \in Workers : worker[w].job # 2

\* C22: every Processing job has a non-null locked_until; the step that
\* claims a job sets locked_until to the claim time plus the lock duration
\* and increments attempts by exactly one.
C22_ProcessingIsLocked ==
    /\ [](\A j \in JobIds : jobs[j].status = "processing" => jobs[j].locked_until # NULL)
    /\ [][ \A j \in JobIds :
             (jobs[j].status # "processing" /\ jobs'[j].status = "processing") =>
                /\ jobs'[j].locked_until = now + LockDuration
                /\ jobs'[j].attempts = jobs[j].attempts + 1
       ]_vars

\* C22 witness: a job claimed for the second time, after the clock has
\* advanced, is locked until one lock duration from now
C22_Witness ==
    \E j \in JobIds :
        /\ jobs[j].status = "processing"
        /\ jobs[j].attempts = 2
        /\ now > 0
        /\ jobs[j].locked_until = now + LockDuration

\* C23: failJob with an error message changes, of the whole table, only the
\* failed job's status, processed_at, locked_until and the error key of its
\* payload: audit_id, page_id, url, rate_limit_ms, attempts, max_attempts and
\* job_type stay as they were and no other row changes; failJob on an id no
\* row has changes nothing.
C23_FailJobFrame ==
    /\ [](FailedJobs(0) = jobs /\ FailedJobs(Len(jobs) + 1) = jobs)
    /\ [][ \A j \in JobIds :
             failCalls'[j] # failCalls[j] =>
                /\ Len(jobs') = Len(jobs)
                /\ \A k \in JobIds \ {j} : jobs'[k] = jobs[k]
                /\ jobs'[j] =
                     [jobs[j] EXCEPT !.status = jobs'[j].status,
                                     !.processed_at = jobs'[j].processed_at,
                                     !.locked_until = jobs'[j].locked_until,
                                     !.payload = [jobs[j].payload EXCEPT
                                                    !.error = jobs'[j].payload.error]]
       ]_vars

\* C23 witness: a crawl_page job failed once is Pending again with its
\* audit_id, page_id, url and rate_limit_ms in place and the error recorded,
\* next to a job that was never failed
C23_Witness ==
    /\ Len(jobs) = 2
    /\ \E j \in JobIds :
          /\ jobs[j].job_type = "crawl_page"
          /\ failCalls[j] = 1
          /\ jobs[j].status = "pending"
          /\ jobs[j].payload = [CrawlPayload(jobs[j].payload.audit_id, j, j, DefaultRateLimitMs)
                                  EXCEPT !.error = TRUE]
          /\ \E k \in JobIds \ {j} : failCalls[k] = 0 /\ jobs[k].status = "processing"

\* C27: every Pending job has locked_until = null and is eligible for
\* getNextJob at once, the jobs failJob returned to Pending included.
C27_PendingIsUnlocked ==
    \A j \in JobIds :
        jobs[j].status = "pending" => jobs[j].locked_until = NULL /\ j \in EligibleJobs

\* C27 witness: a job failed by failJob is Pending and eligible at the very
\* time it was claimed
C27_Witness ==
    \E j \in JobIds :
        /\ failCalls[j] = 1
        /\ jobs[j].status = "pending"
        /\ jobs[j].attempts = 1
        /\ now = 0
        /\ j \in EligibleJobs

\* the pages of an audit whose status is Crawling
CrawlingPages(a) == { p \in PagesOfAudit(a) : pages[p].status = "crawling" }

\* C24: with several workers holding crawl_page jobs of the same audit, in
\* every reachable state at most one page of that audit has status Crawling.
C24_OnePageCrawling ==
    \A a \in 1..Len(audits) : Cardinality(CrawlingPages(a)) <= 1

\* C24 witness: a page of an audit is Crawling while another worker holds a
\* claimed crawl_page job for a different page of the same audit
C24_Witness ==
    \E w \in Workers, v \in Workers :
        /\ worker[w].pc = "crawl_run"
        /\ pages[PageOf(w)].status = "crawling"
        /\ worker[v].pc = "claimed"
        /\ JobOf(v).job_type = "crawl_page"
        /\ AuditOf(v) = AuditOf(w)
        /\ PageOf(v) # PageOf(w)
        /\ pages[PageOf(v)].status = "pending"

\* C25: a store failure is retried by the worker loop and never charged to
\* a job: when completeJob was rejected by an unreachable store, the step
\* that handles the rejection does not move the job to Failed and gives the
\* job back the attempt its claim had counted.
C25_StoreFailureNotCharged ==
    [][ \A w \in Workers :
          (worker[w].pc = "complete_threw" /\ worker'[w].pc # "complete_threw") =>
             /\ jobs'[worker[w].job].status # "failed"
             /\ jobs'[worker[w].job].attempts < jobs[worker[w].job].attempts
      ]_vars

\* C26: processed_urls of an audit never decreases: whatever the
\* interleaving of the analyze handlers, no step stores a processed_urls
\* below the value stored before the step.
C26_ProcessedNeverDecreases ==
    [][ \A a \in 1..Len(audits) :
          audits'[a].processed_urls >= audits[a].processed_urls ]_vars

\* the position of a page status on the path Pending, Crawling, Analyzing,
\* Completed; Failed ends the path from any position
StatusRank(st) ==
    CASE st = "pending" -> 0
      [] st = "crawling" -> 1
      [] st = "analyzing" -> 2
      [] st = "completed" -> 3
      [] st = "failed" -> 4

\* C29: the status of a page only moves forward along Pending, Crawling,
\* Analyzing, Completed, or ends in Failed: every step that changes a page's
\* status starts from a status that is neither Completed nor Failed and
\* leads to a later one, so Analyzing is never followed by Crawling.
C29_PageStatusForward ==
    [][ \A p \in PageIds :
          pages'[p].status # pages[p].status =>
             /\ pages[p].status \notin {"completed", "failed"}
             /\ StatusRank(pages'[p].status) > StatusRank(pages[p].status)
      ]_vars

\* the analyze_page jobs enqueued for page p
AnalyzeJobsOfPage(p) ==
    { j \in JobIds : jobs[j].job_type = "analyze_page" /\ jobs[j].payload.page_id = p }

\* C30: when the crawl of processCrawlPageJob succeeds the page is set to
\* Analyzing with its content persisted, and only then exactly one
\* analyze_page job for that page is enqueued; when the crawl throws the
\* page is set to Failed with the error message, no job is enqueued and the
\* error reaches the worker, which calls failJob; analyze_page jobs are
\* enqueued by no other step.
C30_CrawlOutcome ==
    [][ /\ \A w \in Workers :
             /\ (worker[w].pc = "crawl_run" /\ worker'[w].pc = "crawl_enqueue") =>
                   /\ pages'[PageOf(w)].status = "analyzing"
                   /\ pages'[PageOf(w)].has_content
                   /\ jobs' = jobs
             /\ (worker[w].pc = "crawl_enqueue" /\ worker'[w].pc # "crawl_enqueue") =>
                   /\ pages[PageOf(w)].status = "analyzing"
                   /\ pages[PageOf(w)].has_content
                   /\ pages' = pages
                   /\ jobs' = Append(jobs, NewJob("analyze_page",
                                                  AnalyzePayload(AuditOf(w), PageOf(w))))
                   /\ worker'[w].pc = "returned"
             /\ (worker[w].pc = "crawl_run" /\ worker'[w].pc \notin {"crawl_run", "crawl_enqueue"}) =>
                   /\ pages'[PageOf(w)].status = "failed"
                   /\ pages'[PageOf(w)].has_error
                   /\ jobs' = jobs
                   /\ worker'[w].pc = "threw"
             /\ (worker[w].pc = "threw" /\ worker'[w].pc # "threw") =>
                   /\ failCalls'[worker[w].job] = failCalls[worker[w].job] + 1
                   /\ Len(jobs') = Len(jobs)
        /\ (Len(jobs) > 0 /\ Len(jobs') # Len(jobs)) =>
             (\E w \in Workers : worker[w].pc = "crawl_enqueue" /\ worker'[w].pc = "returned")
      ]_vars

\* C30 witness: a crawl handler has returned with its page Analyzing, the
\* content stored and one analyze_page job enqueued for it, while the other
\* page, whose crawl threw, is Failed with its error and has no such job
C30_Witness ==
    /\ \E w \in Workers :
          /\ worker[w].pc = "returned"
          /\ JobOf(w).job_type = "crawl_page"
          /\ pages[PageOf(w)].status = "analyzing"
          /\ pages[PageOf(w)].has_content
          /\ Cardinality(AnalyzeJobsOfPage(PageOf(w))) = 1
    /\ \E p \in PageIds :
          /\ pages[p].status = "failed"
          /\ pages[p].has_error
          /\ AnalyzeJobsOfPage(p) = {}

\* a CSV reader by the standard rules: fields are separated by commas and
\* records by line feeds; a field that starts with a quote runs to the next
\* quote that is not doubled, and a doubled quote inside it stands for one
\* quote
RECURSIVE CsvParse(_, _, _, _, _)
CsvParse(text, mode, field, record, records) ==
    IF text = << >> THEN Append(records, Append(record, field))
    ELSE LET ch == Head(text)
             rest == Tail(text)
             EndField == CsvParse(rest, "start", << >>, Append(record, field), records)
             EndRecord == CsvParse(rest, "start", << >>, << >>,
                                   Append(records, Append(record, field)))
         IN CASE mode = "start" ->
                   IF ch = "\"" THEN CsvParse(rest, "quoted", << >>, record, records)
                   ELSE IF ch = "," THEN EndField
                   ELSE IF ch = "\n" THEN EndRecord
                   ELSE CsvParse(rest, "unquoted", <<ch>>, record, records)
              [] mode = "unquoted" ->
                   IF ch = "," THEN EndField
                   ELSE IF ch = "\n" THEN EndRecord
                   ELSE CsvParse(rest, "unquoted", Append(field, ch), record, records)
              [] mode = "quoted" ->
                   IF ch = "\"" THEN CsvParse(rest, "closing", field, record, records)
                   ELSE CsvParse(rest, "quoted", Append(field, ch), record, records)
              [] mode = "closing" ->
                   IF ch = "\"" THEN CsvParse(rest, "quoted", Append(field, ch), record, records)
                   ELSE IF ch = "," THEN EndField
                   ELSE IF ch = "\n" THEN EndRecord
                   ELSE CsvParse(rest, "unquoted", Append(field, ch), record, records)

CsvRecords(text) == CsvParse(text, "start", << >>, << >>, << >>)

\* C28: the escaping of generateCsvExport round-trips: reading the row
\* written for any field values made of letters, commas, quotes and line
\* feeds gives one record holding exactly those values.
C28_CsvRoundTrip ==
    csv.called => CsvRecords(csv.text) = << csv.fields >>

\* C28 witness: a value with a comma and a quote was written wrapped in
\* quotes with the inner quote doubled, followed by an empty field
C28_Witness ==
    /\ csv.called
    /\ csv.fields = << <<"a", ",", "\"">>, << >> >>
    /\ csv.text = <<"\"", "a", ",", "\"", "\"", "\"", ",">>

C32_AttemptsBounded ==
    \A j \in JobIds : 0 <= jobs[j].attempts /\ jobs[j].attempts <= jobs[j].max_attempts

\* C32 witness: a job is being handled on its last attempt after two
\* failed ones
C32_Witness ==
    \E j \in JobIds :
        /\ jobs[j].status = "processing"
        /\ jobs[j].attempts = jobs[j].max_attempts
        /\ failCalls[j] = jobs[j].max_attempts - 1

\* C33: Completed and Failed are absorbing job statuses: no step changes
\* the status, attempts or processed_at of a job that is Completed or
\* Failed.
C33_TerminalJobsAbsorbing ==
    [][ \A j \in JobIds :
          jobs[j].status \in {"completed", "failed"} =>
             /\ jobs'[j].status = jobs[j].status
             /\ jobs'[j].attempts = jobs[j].attempts
             /\ jobs'[j].processed_at = jobs[j].processed_at
      ]_vars

\* C33 witness: with one job Completed and one Failed in the store, a
\* worker polls at a later time and finds nothing to claim
C33_Witness ==
    /\ \E j \in JobIds : jobs[j].status = "completed"
    /\ \E j \in JobIds : jobs[j].status = "failed"
    /\ now > 0
    /\ EligibleJobs = {}
    /\ \E w \in Workers : worker[w].pc = "idle"

\* C34: if an audit's status is Completed, every page of the audit is
\* Completed or Failed, also while failed jobs are being retried.
C34_CompletedAuditPagesDone ==
    \A a \in 1..Len(audits) :
        audits[a].status = "completed" =>
           \A p \in PagesOfAudit(a) : pages[p].status \in {"completed", "failed"}

\* every job is Completed or Failed and every page is Completed or Failed
AllSettled ==
    /\ \A j \in JobIds : jobs[j].status \in {"completed", "failed"}
    /\ \A p \in PageIds : pages[p].status \in {"completed", "failed"}

C36_ProcessedAtMostTotal ==
    /\ [](\A a \in 1..Len(audits) : audits[a].processed_urls <= audits[a].total_urls)
    /\ [][ \A a \in 1..Len(audits) : audits'[a].total_urls = audits[a].total_urls ]_vars

\* C37: the percentage returned by successive getAuditProgress calls for
\* one audit never decreases, wherever the calls fall between the
\* statements of startAudit and of the handlers.
C37_PercentageNeverDecreases ==
    [][ (progress.called /\ progress'.called) =>
           progress'.percentage >= progress.percentage ]_vars

\* the audits named by a job in the queue
AuditsWithJobs == { jobs[j].payload.audit_id : j \in JobIds }

\* C39: startAudit sets the audit to Crawling before it enqueues the first
\* crawl_page job: in every reachable state an audit that has a job, or a
\* page that has left Pending, has a status other than Pending.
C39_SeededAuditNotPending ==
    \A a \in 1..Len(audits) :
        (a \in AuditsWithJobs \/ \E p \in PagesOfAudit(a) : pages[p].status # "pending")
           => audits[a].status # "pending"

\* C39 witness: startAudit is still enqueuing: the first job is claimed and
\* its page Crawling while the second URL has no job yet
C39_Witness ==
    /\ seed.pc = "enqueue"
    /\ Len(jobs) = 1
    /\ Len(pages) = 2
    /\ pages[1].status = "crawling"
    /\ audits[1].status = "crawling"

\* C38: every row of generateCsvExport(auditId) reports the issues of that
\* audit's own page: the summary, snippets and suggestions of a row come
\* from the same issues as its issue_count, also when another page of this
\* or another audit has the same URL.
C38_ExportRowsOwnIssues ==
    csv.called =>
       \A p \in DOMAIN csv.rows : csv.rows[p].issues_summary = csv.rows[p].issue_count

====
